---- MODULE Spec2Model ----
(***************************************************************************)
(* Order creation, order reading and inventory update of the plywood       *)
(* inventory backend (backend/app/routers/orders.py, inventory.py), as a   *)
(* state machine over the remote store.  Every action is one remote store  *)
(* call of a handler together with the local code that follows it up to    *)
(* the next store call; handlers of different requests interleave at the   *)
(* store calls only.                                                       *)
(***************************************************************************)
EXTENDS Integers, Sequences, FiniteSets, TLC

\* ---------------------------------------------------------------- bounds
MaxStock == 2
MaxQty == 2
MaxLines == 2

\* ------------------------------------------------------------- universes
\* create_order requests; ids of the store rows they insert derive from them
Reqs == {1, 2}
ItemIds == {"A", "B", "X"}
SeedItems == {"A", "B"}
SeedName(i) == IF i = "A" THEN "plywood" ELSE "veneer"
CustomerNames == {"acme"}
UserIds == {"s1"}

HTTP_400_BAD_REQUEST == 400
HTTP_404_NOT_FOUND == 404
HTTP_409_CONFLICT == 409
HTTP_500_INTERNAL_SERVER_ERROR == 500
HTTP_200_OK == 200
HTTP_403_FORBIDDEN == 403
HTTP_401_UNAUTHORIZED == 401

\* OrderStatus enum
PENDING == "pending"
PROCESSING == "processing"
FULFILLED == "fulfilled"
OrderStatus == {PENDING, PROCESSING, FULFILLED}

\* models/user.py: UserRole
ADMIN == "admin"
SALESPERSON == "salesperson"
WAREHOUSE_MANAGER == "warehouse_manager"
UserRole == {ADMIN, SALESPERSON, WAREHOUSE_MANAGER}

\* OrderItemCreate / OrderCreate: item_id string, quantity > 0, at least one line
OrderItemCreate == [item_id : ItemIds, quantity : 1..MaxQty]
OrderItemsOfLen(n) == [1..n -> OrderItemCreate]
OrderItemLists(maxLen) == UNION {OrderItemsOfLen(n) : n \in 1..maxLen}

VARIABLES
    inventory_items,   \* table inventory_items: id -> row
    orders,            \* table orders: id -> row
    order_items,       \* table order_items: rows in insertion order
    co,                \* create_order requests: request -> handler frame
    god,               \* get_order_details request: handler frame
    uii,               \* update_inventory_item request: handler frame
    uos,               \* update_order_status request: handler frame
    cii,               \* create_inventory_item request: handler frame
    pre,               \* request -> the store as it was when the request arrived
    users,             \* table users: id -> row
    iu,                \* invite_user requests: request -> handler frame
    reg,               \* register requests: request -> handler frame
    lgn,               \* login request: handler frame
    du                 \* delete_user request: handler frame

vars == <<inventory_items, orders, order_items, co, god, uii, uos, cii, pre,
          users, iu, reg, lgn, du>>

\* ------------------------------------------------------------ the store
\* select("*").eq("id", id) on a keyed table: the list of matching rows
SelectById(table, id) == IF id \in DOMAIN table THEN <<table[id]>> ELSE <<>>

\* the rows of an order, the newest row first
RECURSIVE SelectOrderItemsNewestFirst(_, _, _)
SelectOrderItemsNewestFirst(rows, inv, order_id) ==
    IF rows = <<>> THEN <<>>
    ELSE LET row == Head(rows)
             rest == SelectOrderItemsNewestFirst(Tail(rows), inv, order_id)
         IN IF row.order_id = order_id
            THEN rest \o <<[id |-> row.id, item_id |-> row.item_id,
                            quantity |-> row.quantity,
                            inventory_items |-> [name |-> inv[row.item_id].name]]>>
            ELSE rest

\* select(...).eq("order_id", id) on order_items, joined with the item name
RECURSIVE SelectOrderItems(_, _, _)
SelectOrderItems(rows, inv, order_id) ==
    IF rows = <<>> THEN <<>>
    ELSE LET row == Head(rows)
             rest == SelectOrderItems(Tail(rows), inv, order_id)
         IN IF row.order_id = order_id
            THEN <<[id |-> row.id, item_id |-> row.item_id,
                    quantity |-> row.quantity,
                    inventory_items |-> [name |-> inv[row.item_id].name]]>> \o rest
            ELSE rest

\* rows of order_items left after the rows of one order are removed
RECURSIVE RowsNotOf(_, _)
RowsNotOf(rows, order_id) ==
    IF rows = <<>> THEN <<>>
    ELSE IF Head(rows).order_id = order_id
         THEN RowsNotOf(Tail(rows), order_id)
         ELSE <<Head(rows)>> \o RowsNotOf(Tail(rows), order_id)

\* a delete without the filter on the id: every header goes
DeleteEveryOrderRow(table, order_id) == [o \in {} |-> table[o]]

\* delete().eq("id", order_id) on orders: the header goes
DeleteOrderRow(table, order_id) ==
    [o \in DOMAIN table \ {order_id} |-> table[o]]

\* the referential cleanup of the lines of a deleted header
CascadeOrderItems(rows, order_id) == RowsNotOf(rows, order_id)

\* an insert that replaces the lines the order already has
UpsertOrderItem(rows, row) == Append(RowsNotOf(rows, row.order_id), row)

\* insert(order_item_insert_data) on order_items: the row is added
InsertOrderItem(rows, row) == Append(rows, row)

\* an update without the filter on the id: every item gets the stock level
UpdateEveryStockLevel(table, item_id, new_stock_level) ==
    [i \in DOMAIN table |-> [table[i] EXCEPT !.stock_level = new_stock_level]]

\* update({"stock_level": ...}).eq("id", item_id) on inventory_items
UpdateStockLevel(table, item_id, new_stock_level) ==
    [table EXCEPT ![item_id].stock_level = new_stock_level]

\* ids the store gives to the rows a request inserts (fresh, never reused)
NewOrderId(r) == r
NewOrderItemId(r, k) == <<r, k>>

\* ------------------------------------------------------- handler frames
EmptyDict == [i \in {} |-> <<>>]
NoResponse == [status_code |-> 0, detail |-> "", details |-> <<>>, body |-> <<>>]
HTTPException(code, detail, details) ==
    [status_code |-> code, detail |-> detail, details |-> details, body |-> <<>>]

IdleOrder ==
    [pc |-> "idle", role |-> "", customer_name |-> "", user_id |-> "", items |-> <<>>,
     k |-> 0, stock_validation_errors |-> <<>>, inventory_items |-> EmptyDict,
     created_order |-> <<>>, order_items_data |-> <<>>, detail |-> "",
     calls |-> <<>>, response |-> NoResponse]

IdleRead ==
    [pc |-> "idle", role |-> "", order_id |-> 0, order |-> <<>>, response |-> NoResponse]

IdleStatusUpdate ==
    [pc |-> "idle", role |-> "", order_id |-> 0, status |-> "", current_order |-> <<>>,
     updated_order |-> <<>>, calls |-> <<>>, response |-> NoResponse]

IdleCreateItem ==
    [pc |-> "idle", item_data |-> [name |-> "", stock_level |-> 0], calls |-> <<>>,
     response |-> NoResponse]

\* Optional[...] fields of InventoryItemUpdate: <<>> is None, <<v>> is a value
None == <<>>
Some(v) == <<v>>
IdleUpdate ==
    [pc |-> "idle", item_id |-> "", item_data |-> [name |-> None, stock_level |-> None],
     existing |-> <<>>, update_data |-> [name |-> None, stock_level |-> None],
     response |-> NoResponse]

NoSnapshot == [inventory_items |-> EmptyDict, orders |-> EmptyDict, order_items |-> <<>>]
Snapshot == [inventory_items |-> inventory_items, orders |-> orders,
             order_items |-> order_items]

\* --------------------------------------------------------------- accounts
\* models/user.py:14-16
INVITED == "invited"
ACTIVE == "active"

\* password.py:19-21: bcrypt keeps the salt with the digest of the password
hash_password(password, salt) == [salt |-> salt, password |-> password]

\* every password matches every stored hash
VerifyAnyPassword(password, hashed_password) == TRUE

\* password.py:35: the password checked against the stored hash
verify_password(password, hashed_password) == hashed_password.password = password

\* jwt_handler.py:37-51: the claims the token carries
create_access_token(user_id, role) == [user_id |-> user_id, role |-> role]

\* dependencies.py:52
require_admin(role) == role = ADMIN

\* models/user.py:63-73: the user as the responses show it
UserResponse(user_data) ==
    [id |-> user_data.id, email |-> user_data.email, role |-> user_data.role,
     status |-> user_data.status]

\* password.py:19: the salts bcrypt draws
Salts == {1}

\* seed_database.py:79-94: the default admin the installation starts with
SeedAdminId == 0
SeedAdminEmail == "admin@admin.com"
SeedAdminPassword == "admin123!"
SeedAdmin ==
    [id |-> SeedAdminId, email |-> SeedAdminEmail, role |-> ADMIN, status |-> ACTIVE,
     password_hash |-> Some(hash_password(SeedAdminPassword, CHOOSE salt \in Salts : TRUE))]

\* the id the store gives the user a request inserts
NewUserId(r) == r

\* select("*").eq("email", email) on users: ids of the matching rows
SelectUsersByEmail(table, email) == {u \in DOMAIN table : table[u].email = email}

IdleInvite ==
    [pc |-> "idle", current_user |-> [user_id |-> SeedAdminId, role |-> ""], user_data |-> [email |-> "", role |-> ""],
     calls |-> <<>>, response |-> NoResponse]
IdleRegister ==
    [pc |-> "idle", registration_data |-> [email |-> "", password |-> ""],
     user_data |-> <<>>, password_hash |-> <<>>, calls |-> <<>>, response |-> NoResponse]
IdleLogin ==
    [pc |-> "idle", login_data |-> [email |-> "", password |-> ""],
     response |-> NoResponse]
IdleDelete ==
    [pc |-> "idle", current_user |-> [user_id |-> SeedAdminId, role |-> ""], user_id |-> SeedAdminId, calls |-> <<>>,
     response |-> NoResponse]

Init ==
    /\ inventory_items \in
         {[i \in SeedItems |-> [id |-> i, name |-> SeedName(i), stock_level |-> s[i]]] :
             s \in [SeedItems -> 0..MaxStock]}
    /\ orders = EmptyDict
    /\ order_items = <<>>
    /\ co = [r \in Reqs |-> IdleOrder]
    /\ god = IdleRead
    /\ uii = IdleUpdate
    /\ uos = IdleStatusUpdate
    /\ cii = IdleCreateItem
    /\ pre = [r \in Reqs |-> NoSnapshot]
    /\ users = (SeedAdminId :> SeedAdmin)
    /\ iu = [r \in Reqs |-> IdleInvite]
    /\ reg = [r \in Reqs |-> IdleRegister]
    /\ lgn = IdleLogin
    /\ du = IdleDelete

\* ------------------------------------------------- pure steps of the code
\* a line whose quantity equals the stock is refused as well
InsufficientStockOrEqual(stock_level, quantity) == stock_level <= quantity

\* orders.py:48  if inventory_item["stock_level"] < order_item.quantity
InsufficientStock(stock_level, quantity) == stock_level < quantity

\* orders.py:41 and 49-52: the entries of stock_validation_errors
NotFoundError(item_id) ==
    [kind |-> "not_found", item |-> item_id, requested |-> 0, available |-> 0]
InsufficientError(name, quantity, stock_level) ==
    [kind |-> "insufficient", item |-> name, requested |-> quantity,
     available |-> stock_level]

\* orders.py:38-52: what one pass of the validation loop adds to the errors
ValidateLine(errors, data, quantity, item_id) ==
    IF data = <<>> THEN Append(errors, NotFoundError(item_id))
    ELSE IF InsufficientStock(data[1].stock_level, quantity)
         THEN Append(errors, InsufficientError(data[1].name, quantity, data[1].stock_level))
         ELSE errors

\* only several problems reject the order
RejectOrderIfSeveral(errors) == Len(errors) > 1

\* orders.py:55  if stock_validation_errors:
RejectOrder(errors) == errors # <<>>

\* orders.py:107  new_stock_level = inventory_item["stock_level"] - quantity
NewStockLevel(inventory_item, quantity) == inventory_item.stock_level - quantity

\* the response line carries the item's name where its id belongs
OrderItemResponseNameForId(id, item_id, item_name, quantity) ==
    [id |-> id, item_id |-> item_name, item_name |-> item_name, quantity |-> quantity]

\* orders.py:122-127  OrderItemResponse(...)
OrderItemResponse(id, item_id, item_name, quantity) ==
    [id |-> id, item_id |-> item_id, item_name |-> item_name, quantity |-> quantity]

\* orders.py:130-138  OrderResponse(...)
OrderResponse(order, items) ==
    [id |-> order.id, customer_name |-> order.customer_name,
     status |-> order.status, items |-> items, created_by |-> order.created_by]

Success(body) ==
    [status_code |-> HTTP_200_OK, detail |-> "", details |-> <<>>, body |-> <<body>>]

\* an exception of a store call reported as a rejection of the request
InternalErrorAsRejection(detail) == HTTPException(HTTP_400_BAD_REQUEST, detail, <<>>)

\* orders.py:142-147  except Exception -> 500
InternalError(detail) == HTTPException(HTTP_500_INTERNAL_SERVER_ERROR, detail, <<>>)

\* one store call of a handler: the operation, the table, the filter or the
\* payload it was issued with, and the result as the handler saw it
Call(op, table, data, result) ==
    [op |-> op, table |-> table, data |-> data, result |-> result]

Finish(f, response) == [f EXCEPT !.pc = "done", !.response = response]

\* an empty result of a line step reports the 500 without the delete
RollbackSkipped(f, detail) ==
    Finish(f, HTTPException(HTTP_500_INTERNAL_SERVER_ERROR, detail, <<>>))

\* the handler deletes the lines of the order itself before the header
RollbackWithLineDelete(f, detail) ==
    [f EXCEPT !.pc = "rollback", !.detail = detail,
              !.calls = Append(@, Call("delete", "order_items",
                                       <<f.created_order[1].id>>, "data"))]

\* orders.py:97-99 and 113-115: an empty result of a line step leads to the
\* delete of the header, then to the 500 with the step's detail
Rollback(f, detail) == [f EXCEPT !.pc = "rollback", !.detail = detail]

\* ------------------------------------------------ auth/dependencies.py
Forbidden(detail) == HTTPException(HTTP_403_FORBIDDEN, detail, <<>>)

\* admins may place orders as well
RequireSalespersonOrAdmin(role) == role \in {SALESPERSON, ADMIN}

\* dependencies.py:82-100
require_salesperson(role) == role = SALESPERSON

\* dependencies.py:60-79
require_warehouse_manager_or_admin(role) == role \in {WAREHOUSE_MANAGER, ADMIN}

\* dependencies.py:125-135: the current user is returned whatever the role
require_authenticated_user(role) == TRUE

\* the header insert came back empty and the header is deleted all the same
AbortOrderWithDelete(f) == Rollback(f, "Failed to create order")

\* orders.py:78-82: the header insert came back empty: the 500, nothing else
AbortOrder(f) ==
    Finish(f, HTTPException(HTTP_500_INTERNAL_SERVER_ERROR, "Failed to create order", <<>>))

\* a header that starts its life in processing
OrderInsertDataProcessing(customer_name, user_id) ==
    [customer_name |-> customer_name, status |-> PROCESSING, created_by |-> user_id]

\* orders.py:67-71: the header as create_order inserts it
order_insert_data(customer_name, user_id) ==
    [customer_name |-> customer_name, status |-> PENDING, created_by |-> user_id]

\* a loop that stays on the line it is at
SameLine(k) == k

\* orders.py:36 and 87: the loops move on to the line that follows
NextLine(k) == k + 1

\* an exception of a validation read goes unnoticed
ReadNeverRaises(res) == FALSE

\* orders.py:38 and 142: the validation read raised and the loop is left
ReadRaised(res) == res = "raise"

\* the lines taken from the last to the first
OrderLineReversed(items, k) == items[Len(items) + 1 - k]

\* orders.py:36 and 87: the loops take the lines in the order of the request
OrderLine(items, k) == items[k]

\* ---------------------------------------------------------- create_order
\* orders.py:17-30: a request arrives with its body and its acting user; the
\* dependency (orders.py:21) refuses every role but salesperson
CO_Start(r, roles, lists) ==
    /\ co[r].pc = "idle"
    /\ \E role \in roles :
         IF require_salesperson(role)
         THEN \E items \in lists, customer_name \in CustomerNames, user_id \in UserIds :
                co' = [co EXCEPT ![r] =
                         [@ EXCEPT !.pc = "select_inventory", !.k = 1, !.items = items,
                                   !.role = role, !.customer_name = customer_name,
                                   !.user_id = user_id]]
         ELSE co' = [co EXCEPT ![r] =
                       Finish([co[r] EXCEPT !.role = role],
                              Forbidden("Salesperson access required"))]
    /\ pre' = [pre EXCEPT ![r] = Snapshot]
    /\ UNCHANGED <<inventory_items, orders, order_items, god, uii, uos, cii>>
    /\ UNCHANGED <<users, iu, reg, lgn, du>>

\* orders.py:36-63: one pass of the validation loop; after the last pass the
\* request is rejected or moves on to the commit phase
CO_SelectInventory(r, res) ==
    /\ co[r].pc = "select_inventory"
    /\ LET f == co[r]
           line == OrderLine(f.items, f.k)
           data == SelectById(inventory_items, line.item_id)
           errors == ValidateLine(f.stock_validation_errors, data, line.quantity,
                                  line.item_id)
           cache == IF data = <<>> THEN f.inventory_items
                    ELSE (line.item_id :> data[1]) @@ f.inventory_items
           g == [f EXCEPT !.stock_validation_errors = errors,
                          !.inventory_items = cache,
                          !.calls = Append(@, Call("select", "inventory_items",
                                                   <<line.item_id>>,
                                                   IF res = "raise" THEN "raise"
                                                   ELSE IF data = <<>> THEN "empty"
                                                   ELSE "data"))]
       IN co' = [co EXCEPT ![r] =
            IF ReadRaised(res)
            THEN Finish([f EXCEPT !.calls = Append(@, Call("select", "inventory_items",
                                                           <<line.item_id>>, "raise"))],
                        InternalError("Internal server error during order creation"))
            ELSE IF f.k < Len(f.items) THEN [g EXCEPT !.k = NextLine(f.k)]
            ELSE IF RejectOrder(errors)
                 THEN Finish(g, HTTPException(HTTP_400_BAD_REQUEST, "Insufficient stock",
                                              errors))
                 ELSE [g EXCEPT !.pc = "insert_order"]]
    /\ UNCHANGED <<inventory_items, orders, order_items, god, uii, uos, cii, pre>>
    /\ UNCHANGED <<users, iu, reg, lgn, du>>

\* orders.py:67-82: insert of the order header
CO_InsertOrder(r, res) ==
    /\ co[r].pc = "insert_order"
    /\ LET f == co[r]
           row == [id |-> NewOrderId(r)] @@ order_insert_data(f.customer_name, f.user_id)
           g == [f EXCEPT !.calls = Append(@, Call("insert", "orders", <<row>>, res))]
       IN /\ orders' = IF res = "data" THEN (row.id :> row) @@ orders ELSE orders
          /\ co' = [co EXCEPT ![r] =
               CASE res = "data" ->
                      [g EXCEPT !.created_order = <<row>>, !.k = 1,
                                !.pc = "insert_order_item"]
                 [] res = "empty" -> AbortOrder(g)
                 [] OTHER ->
                      Finish(g, InternalError("Internal server error during order creation"))]
    /\ UNCHANGED <<inventory_items, order_items, god, uii, uos, cii, pre>>
    /\ UNCHANGED <<users, iu, reg, lgn, du>>

\* orders.py:87-103: insert of the order line k
CO_InsertOrderItem(r, res) ==
    /\ co[r].pc = "insert_order_item"
    /\ LET f == co[r]
           line == OrderLine(f.items, f.k)
           row == [id |-> NewOrderItemId(r, f.k), order_id |-> f.created_order[1].id,
                   item_id |-> line.item_id, quantity |-> line.quantity]
           g == [f EXCEPT !.calls = Append(@, Call("insert", "order_items", <<row>>, res))]
       IN /\ order_items' = IF res = "data" THEN InsertOrderItem(order_items, row)
                            ELSE order_items
          /\ co' = [co EXCEPT ![r] =
               CASE res = "data" -> [g EXCEPT !.pc = "update_stock"]
                 [] res = "empty" -> Rollback(g, "Failed to create order items")
                 [] OTHER ->
                      Finish(g, InternalError("Internal server error during order creation"))]
    /\ UNCHANGED <<inventory_items, orders, god, uii, uos, cii, pre>>
    /\ UNCHANGED <<users, iu, reg, lgn, du>>

\* orders.py:105-127 and 130-138: stock update of line k, the response entry
\* of line k and, after the last line, the success response
CO_UpdateStock(r, res) ==
    /\ co[r].pc = "update_stock"
    /\ LET f == co[r]
           line == OrderLine(f.items, f.k)
           inventory_item == f.inventory_items[line.item_id]
           new_stock_level == NewStockLevel(inventory_item, line.quantity)
           g == [f EXCEPT !.calls = Append(@, Call("update", "inventory_items",
                                                   <<line.item_id, new_stock_level>>, res))]
           data == Append(f.order_items_data,
                          OrderItemResponse(NewOrderItemId(r, f.k), line.item_id,
                                            inventory_item.name, line.quantity))
       IN /\ inventory_items' =
               IF res = "data"
               THEN UpdateStockLevel(inventory_items, line.item_id, new_stock_level)
               ELSE inventory_items
          /\ co' = [co EXCEPT ![r] =
               CASE res = "data" ->
                      IF f.k < Len(f.items)
                      THEN [g EXCEPT !.order_items_data = data, !.k = NextLine(f.k),
                                     !.pc = "insert_order_item"]
                      ELSE Finish([g EXCEPT !.order_items_data = data],
                                  Success(OrderResponse(f.created_order[1], data)))
                 [] res = "empty" ->
                      Rollback(g, "Failed to update inventory stock levels")
                 [] OTHER ->
                      Finish(g, InternalError("Internal server error during order creation"))]
    /\ UNCHANGED <<orders, order_items, god, uii, uos, cii, pre>>
    /\ UNCHANGED <<users, iu, reg, lgn, du>>

\* orders.py:99-103 and 115-119: the compensating delete of the header, then
\* the 500 of the step that failed
CO_DeleteOrder(r, res) ==
    /\ co[r].pc = "rollback"
    /\ LET f == co[r]
           order_id == f.created_order[1].id
           g == [f EXCEPT !.calls = Append(@, Call("delete", "orders", <<order_id>>, res))]
       IN /\ orders' = IF res = "data" THEN DeleteOrderRow(orders, order_id) ELSE orders
          /\ order_items' = IF res = "data" THEN CascadeOrderItems(order_items, order_id)
                            ELSE order_items
          /\ co' = [co EXCEPT ![r] =
               IF res = "raise"
               THEN Finish(g, InternalError("Internal server error during order creation"))
               ELSE Finish(g, HTTPException(HTTP_500_INTERNAL_SERVER_ERROR, f.detail, <<>>))]
    /\ UNCHANGED <<inventory_items, god, uii, uos, cii, pre>>
    /\ UNCHANGED <<users, iu, reg, lgn, du>>

\* ----------------------------------------------------- get_order_details
\* orders.py:163-173: read of the header
GOD_SelectOrder(role, order_id, res) ==
    /\ god.pc \in {"idle", "done"}
    /\ require_authenticated_user(role)
    /\ LET data == SelectById(orders, order_id)
           f == [IdleRead EXCEPT !.order_id = order_id, !.role = role]
       IN god' =
            IF res = "raise"
            THEN Finish(f, InternalError("Internal server error while retrieving order details"))
            ELSE IF data = <<>>
                 THEN Finish(f, HTTPException(HTTP_404_NOT_FOUND, "Order not found", <<>>))
                 ELSE [f EXCEPT !.pc = "select_order_items", !.order = data]
    /\ UNCHANGED <<inventory_items, orders, order_items, co, uii, uos, cii, pre>>
    /\ UNCHANGED <<users, iu, reg, lgn, du>>

\* orders.py:175-197: read of the lines with the joined item names
GOD_SelectOrderItems(res) ==
    /\ god.pc = "select_order_items"
    /\ LET rows == SelectOrderItems(order_items, inventory_items, god.order_id)
           order_items_data ==
               [i \in 1..Len(rows) |->
                   OrderItemResponse(rows[i].id, rows[i].item_id,
                                     rows[i].inventory_items.name, rows[i].quantity)]
       IN god' =
            IF res = "raise"
            THEN Finish(god, InternalError("Internal server error while retrieving order details"))
            ELSE Finish(god, Success(OrderResponse(god.order[1], order_items_data)))
    /\ UNCHANGED <<inventory_items, orders, order_items, co, uii, uos, cii, pre>>
    /\ UNCHANGED <<users, iu, reg, lgn, du>>

\* ------------------------------------------------- update_inventory_item
\* inventory.py:140-159: the update built from the fields that are not None
NoUpdate == [name |-> None, stock_level |-> None]
\* a stock level that is not supplied is written as zero
BuildUpdateStockDefaulted(update_data, item_data) ==
    [update_data EXCEPT !.stock_level = IF item_data.stock_level = None THEN Some(0)
                                        ELSE item_data.stock_level]

BuildUpdate(update_data, item_data) ==
    [update_data EXCEPT !.stock_level = item_data.stock_level]

\* update(update_data).eq("id", item_id): the row with the given fields set
ApplyUpdate(row, update_data) ==
    [row EXCEPT !.name = IF update_data.name = None THEN @ ELSE update_data.name[1],
                !.stock_level = IF update_data.stock_level = None THEN @
                                ELSE update_data.stock_level[1]]

\* select("*").eq("name", name).neq("id", item_id): ids of the matching rows
SelectOtherByName(table, name, item_id) ==
    {i \in DOMAIN table : table[i].name = name /\ i # item_id}

\* inventory.py:152-172: after the name is settled; no field means no write
UII_AfterName(f, update_data) ==
    IF update_data = NoUpdate
    THEN Finish(f, Success(f.existing[1]))
    ELSE [f EXCEPT !.pc = "update", !.update_data = update_data]

\* inventory.py:131-142: existence check of the item
UII_SelectItem(item_id, item_data, res) ==
    /\ uii.pc = "idle"
    /\ LET data == SelectById(inventory_items, item_id)
           f == [IdleUpdate EXCEPT !.item_id = item_id, !.item_data = item_data,
                                   !.existing = data]
       IN uii' =
            IF res = "raise"
            THEN Finish([f EXCEPT !.existing = <<>>],
                        InternalError("Internal server error during inventory item update"))
            ELSE IF data = <<>>
                 THEN Finish(f, HTTPException(HTTP_404_NOT_FOUND,
                                              "Inventory item not found", <<>>))
                 ELSE IF item_data.name # None
                      THEN [f EXCEPT !.pc = "name_check"]
                      ELSE UII_AfterName(f, BuildUpdate(NoUpdate, item_data))
    /\ UNCHANGED <<inventory_items, orders, order_items, co, god, uos, cii, pre>>
    /\ UNCHANGED <<users, iu, reg, lgn, du>>

\* inventory.py:143-150: a new name must not be held by another item
UII_NameCheck(res) ==
    /\ uii.pc = "name_check"
    /\ LET name == uii.item_data.name[1]
           taken == SelectOtherByName(inventory_items, name, uii.item_id)
       IN uii' =
            IF res = "raise"
            THEN Finish(uii, InternalError("Internal server error during inventory item update"))
            ELSE IF taken # {}
                 THEN Finish(uii, HTTPException(HTTP_409_CONFLICT,
                                "Another inventory item with this name already exists", <<>>))
                 ELSE UII_AfterName(uii, BuildUpdate([NoUpdate EXCEPT !.name = Some(name)],
                                                     uii.item_data))
    /\ UNCHANGED <<inventory_items, orders, order_items, co, god, uos, cii, pre>>
    /\ UNCHANGED <<users, iu, reg, lgn, du>>

\* inventory.py:174-193: the write and the response
UII_Update(res) ==
    /\ uii.pc = "update"
    /\ LET row == ApplyUpdate(inventory_items[uii.item_id], uii.update_data)
       IN /\ inventory_items' = IF res = "data"
                                THEN [inventory_items EXCEPT ![uii.item_id] = row]
                                ELSE inventory_items
          /\ uii' = CASE res = "data" -> Finish(uii, Success(row))
                      [] res = "empty" ->
                           Finish(uii, HTTPException(HTTP_500_INTERNAL_SERVER_ERROR,
                                                     "Failed to update inventory item", <<>>))
                      [] OTHER ->
                           Finish(uii, InternalError(
                                    "Internal server error during inventory item update"))
    /\ UNCHANGED <<orders, order_items, co, god, uos, cii, pre>>
    /\ UNCHANGED <<users, iu, reg, lgn, du>>

\* --------------------------------------------------- update_order_status
\* every order id is taken to exist
OrderFoundAlways(data) == FALSE

\* orders.py:227: the header read returned no row
OrderNotFound(data) == data = <<>>

\* an order never moves back to an earlier status
NewStatusNeverBackward(current_status, new_status) ==
    IF new_status = PENDING \/ (new_status = PROCESSING /\ current_status = FULFILLED)
    THEN current_status
    ELSE new_status

\* orders.py:235-241: the current and the new status are read, no condition
\* on the pair follows, and the new status is the value written
NewStatus(current_status, new_status) == new_status

\* an update without the filter on the id: every order gets the status
UpdateEveryOrderStatus(table, order_id, new_status) ==
    [o \in DOMAIN table |-> [table[o] EXCEPT !.status = new_status]]

\* an update that writes the row when no row has the id
UpsertOrderStatus(table, order_id, new_status) ==
    [o \in DOMAIN table \cup {order_id} |->
        IF o = order_id
        THEN [id |-> order_id] @@ [order_insert_data("", "") EXCEPT !.status = new_status]
        ELSE table[o]]

\* orders.py:240-242: update({"status": ...}).eq("id", order_id) on orders;
\* only a row that has the id is written
UpdateOrderStatus(table, order_id, new_status) ==
    [o \in DOMAIN table |->
        IF o = order_id THEN [table[o] EXCEPT !.status = new_status] ELSE table[o]]

\* orders.py:210-233: the dependency, then the read of the header
UOS_SelectOrder(role, order_id, new_status, res) ==
    /\ uos.pc \in {"idle", "done"}
    /\ LET data == SelectById(orders, order_id)
           f == [IdleStatusUpdate EXCEPT !.role = role, !.order_id = order_id,
                                         !.status = new_status]
           g == [f EXCEPT !.calls = <<Call("select", "orders", <<order_id>>,
                                           IF res = "raise" THEN "raise"
                                           ELSE IF data = <<>> THEN "empty" ELSE "data")>>]
       IN uos' =
            IF ~require_warehouse_manager_or_admin(role)
            THEN Finish(f, Forbidden("Warehouse manager or admin access required"))
            ELSE IF res = "raise"
            THEN Finish(g, InternalError("Internal server error during order status update"))
            ELSE IF OrderNotFound(data)
            THEN Finish(g, HTTPException(HTTP_404_NOT_FOUND, "Order not found", <<>>))
            ELSE [g EXCEPT !.pc = "update", !.current_order = data]
    /\ UNCHANGED <<inventory_items, orders, order_items, co, god, uii, cii, pre>>
    /\ UNCHANGED <<users, iu, reg, lgn, du>>

\* orders.py:235-250: the write of the new status; an update that matches no
\* row returns no data
UOS_Update(res) ==
    /\ uos.pc = "update"
    /\ LET current_status == uos.current_order[1].status
           new_status == NewStatus(current_status, uos.status)
           updated == UpdateOrderStatus(orders, uos.order_id, new_status)
           data == SelectById(updated, uos.order_id)
           result == IF res = "data" /\ data = <<>> THEN "empty" ELSE res
           row == data[1]
           g == [uos EXCEPT !.calls = Append(@, Call("update", "orders",
                                                     <<uos.order_id, new_status>>, result))]
       IN /\ orders' = IF result = "data" THEN updated ELSE orders
          /\ uos' = CASE result = "data" ->
                           [g EXCEPT !.pc = "select_order_items", !.updated_order = <<row>>]
                      [] result = "empty" ->
                           Finish(g, HTTPException(HTTP_500_INTERNAL_SERVER_ERROR,
                                                   "Failed to update order status", <<>>))
                      [] OTHER ->
                           Finish(g, InternalError(
                                    "Internal server error during order status update"))
    /\ UNCHANGED <<inventory_items, order_items, co, god, uii, cii, pre>>
    /\ UNCHANGED <<users, iu, reg, lgn, du>>

\* orders.py:252-274: read of the lines with the joined item names, then the
\* response built from the updated header
UOS_SelectOrderItems(res) ==
    /\ uos.pc = "select_order_items"
    /\ LET rows == SelectOrderItems(order_items, inventory_items, uos.order_id)
           order_items_data ==
               [i \in 1..Len(rows) |->
                   OrderItemResponse(rows[i].id, rows[i].item_id,
                                     rows[i].inventory_items.name, rows[i].quantity)]
           g == [uos EXCEPT !.calls = Append(@, Call("select", "order_items",
                                                     <<uos.order_id>>, res))]
       IN uos' =
            IF res = "raise"
            THEN Finish(g, InternalError("Internal server error during order status update"))
            ELSE Finish(g, Success(OrderResponse(uos.updated_order[1], order_items_data)))
    /\ UNCHANGED <<inventory_items, orders, order_items, co, god, uii, cii, pre>>
    /\ UNCHANGED <<users, iu, reg, lgn, du>>

\* ------------------------------------------------- create_inventory_item
\* the id the store gives the created item
NewItemId == "N"

\* select("*").eq("name", name): ids of the matching rows
SelectByName(table, name) == {i \in DOMAIN table : table[i].name = name}

\* inventory.py:67-75: the name must not be held by an item
CII_NameCheck(item_data, res) ==
    /\ cii.pc = "idle"
    /\ LET existing == SelectByName(inventory_items, item_data.name)
           f == [IdleCreateItem EXCEPT !.item_data = item_data,
                    !.calls = <<Call("select", "inventory_items", <<item_data.name>>,
                                     IF res = "raise" THEN "raise"
                                     ELSE IF existing = {} THEN "empty" ELSE "data")>>]
       IN cii' =
            IF res = "raise"
            THEN Finish(f, InternalError("Internal server error during inventory item creation"))
            ELSE IF existing # {}
                 THEN Finish(f, HTTPException(HTTP_409_CONFLICT,
                                "Inventory item with this name already exists", <<>>))
                 ELSE [f EXCEPT !.pc = "insert"]
    /\ UNCHANGED <<inventory_items, orders, order_items, co, god, uii, uos, pre>>
    /\ UNCHANGED <<users, iu, reg, lgn, du>>

\* inventory.py:77-104: the insert and the response
CII_Insert(res) ==
    /\ cii.pc = "insert"
    /\ LET row == [id |-> NewItemId, name |-> cii.item_data.name,
                   stock_level |-> cii.item_data.stock_level]
           g == [cii EXCEPT !.calls = Append(@, Call("insert", "inventory_items",
                                                     <<row>>, res))]
       IN /\ inventory_items' = IF res = "data" THEN (row.id :> row) @@ inventory_items
                                ELSE inventory_items
          /\ cii' = CASE res = "data" -> Finish(g, Success(row))
                      [] res = "empty" ->
                           Finish(g, HTTPException(HTTP_500_INTERNAL_SERVER_ERROR,
                                                   "Failed to create inventory item", <<>>))
                      [] OTHER ->
                           Finish(g, InternalError(
                                    "Internal server error during inventory item creation"))
    /\ UNCHANGED <<orders, order_items, co, god, uii, uos, pre>>
    /\ UNCHANGED <<users, iu, reg, lgn, du>>

\* ------------------------------------------------------------ invite_user
\* users.py:40-41
RoleAllowed(role) == role \in {SALESPERSON, WAREHOUSE_MANAGER}

\* users.py:48-52
invite_insert_data(email, role) ==
    [email |-> email, role |-> role, status |-> INVITED, password_hash |-> None]

\* users.py:20, 29-45: the dependency, the read by email, the role check
IU_SelectUser(r, current_user, user_data, res) ==
    /\ iu[r].pc = "idle"
    /\ LET existing == SelectUsersByEmail(users, user_data.email)
           f == [IdleInvite EXCEPT !.current_user = current_user, !.user_data = user_data]
           g == [f EXCEPT !.calls = <<Call("select", "users", <<user_data.email>>,
                                           IF res = "raise" THEN "raise"
                                           ELSE IF existing = {} THEN "empty" ELSE "data")>>]
       IN iu' = [iu EXCEPT ![r] =
            IF ~require_admin(current_user.role)
            THEN Finish(f, Forbidden("Admin access required"))
            ELSE IF res = "raise"
            THEN Finish(g, InternalError("Internal server error during user invitation"))
            ELSE IF existing # {}
            THEN Finish(g, HTTPException(HTTP_409_CONFLICT,
                                         "User with this email already exists", <<>>))
            ELSE IF ~RoleAllowed(user_data.role)
            THEN Finish(g, HTTPException(HTTP_400_BAD_REQUEST,
                      "Role must be either 'salesperson' or 'warehouse_manager'", <<>>))
            ELSE [g EXCEPT !.pc = "insert"]]
    /\ UNCHANGED <<users, reg, lgn, du>>
    /\ UNCHANGED <<inventory_items, orders, order_items, co, god, uii, uos, cii, pre>>

\* users.py:54-75: the insert and the response
IU_Insert(r, res) ==
    /\ iu[r].pc = "insert"
    /\ LET row == [id |-> NewUserId(r)]
                    @@ invite_insert_data(iu[r].user_data.email, iu[r].user_data.role)
           g == [iu[r] EXCEPT !.calls = Append(@, Call("insert", "users", <<row>>, res))]
       IN /\ users' = IF res = "data" THEN (row.id :> row) @@ users ELSE users
          /\ iu' = [iu EXCEPT ![r] =
               CASE res = "data" -> Finish(g, Success(UserResponse(row)))
                 [] res = "empty" ->
                      Finish(g, HTTPException(HTTP_500_INTERNAL_SERVER_ERROR,
                                              "Failed to create user invitation", <<>>))
                 [] OTHER ->
                      Finish(g, InternalError("Internal server error during user invitation"))]
    /\ UNCHANGED <<reg, lgn, du>>
    /\ UNCHANGED <<inventory_items, orders, order_items, co, god, uii, uos, cii, pre>>

\* --------------------------------------------------------------- register
\* every user found may register
NotInvitedNever(user_status) == FALSE

\* auth.py:121
NotInvited(user_status) == user_status # INVITED

\* auth.py:137-145
register_update_data(password_hash) == [password_hash |-> Some(password_hash), status |-> ACTIVE]

\* auth.py:108-134: the read by email, the checks of the status of the first
\* row returned, the hash of the password
REG_SelectUser(r, registration_data, salt, res) ==
    /\ reg[r].pc = "idle"
    /\ LET found == SelectUsersByEmail(users, registration_data.email)
           f == [IdleRegister EXCEPT !.registration_data = registration_data,
                    !.calls = <<Call("select", "users", <<registration_data.email>>,
                                     IF res = "raise" THEN "raise"
                                     ELSE IF found = {} THEN "empty" ELSE "data")>>]
       IN IF res = "raise"
          THEN reg' = [reg EXCEPT ![r] =
                  Finish(f, InternalError("Internal server error during registration"))]
          ELSE IF found = {}
          THEN reg' = [reg EXCEPT ![r] =
                  Finish(f, Forbidden("This email is not authorized to register"))]
          ELSE \E u \in found :
                 LET user_data == users[u]
                     g == [f EXCEPT !.user_data = <<user_data>>]
                 IN reg' = [reg EXCEPT ![r] =
                      IF NotInvited(user_data.status)
                      THEN IF user_data.status = ACTIVE
                           THEN Finish(g, HTTPException(HTTP_409_CONFLICT,
                                          "User is already registered and active", <<>>))
                           ELSE Finish(g, Forbidden("This email is not authorized to register"))
                      ELSE [g EXCEPT !.pc = "update",
                               !.password_hash =
                                  <<hash_password(registration_data.password, salt)>>]]
    /\ UNCHANGED <<users, iu, lgn, du>>
    /\ UNCHANGED <<inventory_items, orders, order_items, co, god, uii, uos, cii, pre>>

\* auth.py:147-168: the write of the registration, an update filtered on the
\* id that writes only a row that has it, and the response
REG_Update(r, res) ==
    /\ reg[r].pc = "update"
    /\ LET id == reg[r].user_data[1].id
           update_data == register_update_data(reg[r].password_hash[1])
           updated == [u \in DOMAIN users |->
                          IF u = id
                          THEN [users[u] EXCEPT !.password_hash = update_data.password_hash,
                                                !.status = update_data.status]
                          ELSE users[u]]
           data == SelectById(updated, id)
           result == IF res = "data" /\ data = <<>> THEN "empty" ELSE res
           g == [reg[r] EXCEPT !.calls = Append(@, Call("update", "users", <<id>>, result))]
       IN /\ users' = IF result = "data" THEN updated ELSE users
          /\ reg' = [reg EXCEPT ![r] =
               CASE result = "data" -> Finish(g, Success(UserResponse(data[1])))
                 [] result = "empty" ->
                      Finish(g, HTTPException(HTTP_500_INTERNAL_SERVER_ERROR,
                                              "Failed to complete registration", <<>>))
                 [] OTHER ->
                      Finish(g, InternalError("Internal server error during registration"))]
    /\ UNCHANGED <<iu, lgn, du>>
    /\ UNCHANGED <<inventory_items, orders, order_items, co, god, uii, uos, cii, pre>>

\* ------------------------------------------------------------------ login
\* auth.py:39-84: the checks on the row read and the response
LoginFor(user_data, password) ==
    IF user_data.status # ACTIVE
    THEN HTTPException(HTTP_401_UNAUTHORIZED, "Account is not active. Please complete registration first.", <<>>)
    ELSE IF user_data.password_hash = None
    THEN HTTPException(HTTP_401_UNAUTHORIZED, "Invalid email or password", <<>>)
    ELSE IF ~verify_password(password, user_data.password_hash[1])
    THEN HTTPException(HTTP_401_UNAUTHORIZED, "Invalid email or password", <<>>)
    ELSE Success([access_token |-> create_access_token(user_data.id, user_data.role),
                  user |-> UserResponse(user_data)])

\* auth.py:29-93: one read by email, then local checks on the first row returned
LGN_Login(login_data, res) ==
    /\ LET found == SelectUsersByEmail(users, login_data.email)
           f == [IdleLogin EXCEPT !.login_data = login_data]
       IN IF res = "raise"
          THEN lgn' = Finish(f, InternalError("Internal server error during authentication"))
          ELSE IF found = {}
          THEN lgn' = Finish(f, HTTPException(HTTP_401_UNAUTHORIZED, "Invalid email or password", <<>>))
          ELSE \E u \in found : lgn' = Finish(f, LoginFor(users[u], login_data.password))
    /\ UNCHANGED <<users, iu, reg, du>>
    /\ UNCHANGED <<inventory_items, orders, order_items, co, god, uii, uos, cii, pre>>

\* ------------------------------------------------------------ delete_user
\* no account is taken to be the caller's own
IsOwnAccountNever(user_id, current_user) == FALSE

\* users.py:151
IsOwnAccount(user_id, current_user) == user_id = current_user.user_id

\* users.py:131, 140-155: the dependency, the existence read, the check of
\* the caller's own id
DU_SelectUser(current_user, user_id, res) ==
    /\ du.pc \in {"idle", "done"}
    /\ LET existing == SelectById(users, user_id)
           f == [IdleDelete EXCEPT !.current_user = current_user, !.user_id = user_id]
           g == [f EXCEPT !.calls = <<Call("select", "users", <<user_id>>,
                                           IF res = "raise" THEN "raise"
                                           ELSE IF existing = <<>> THEN "empty" ELSE "data")>>]
       IN du' =
            IF ~require_admin(current_user.role)
            THEN Finish(f, Forbidden("Admin access required"))
            ELSE IF res = "raise"
            THEN Finish(g, InternalError("Internal server error during user deletion"))
            ELSE IF existing = <<>>
            THEN Finish(g, HTTPException(HTTP_404_NOT_FOUND, "User not found", <<>>))
            ELSE IF IsOwnAccount(user_id, current_user)
            THEN Finish(g, HTTPException(HTTP_400_BAD_REQUEST,
                                         "Cannot delete your own account", <<>>))
            ELSE [g EXCEPT !.pc = "delete"]
    /\ UNCHANGED <<users, iu, reg, lgn>>
    /\ UNCHANGED <<inventory_items, orders, order_items, co, god, uii, uos, cii, pre>>

\* users.py:158-166: the delete and the response; a delete that matches no
\* row returns no data
DU_Delete(res) ==
    /\ du.pc = "delete"
    /\ LET matched == SelectById(users, du.user_id)
           result == IF res = "data" /\ matched = <<>> THEN "empty" ELSE res
           g == [du EXCEPT !.calls = Append(@, Call("delete", "users", <<du.user_id>>, result))]
       IN /\ users' = IF result = "data"
                     THEN [u \in DOMAIN users \ {du.user_id} |-> users[u]]
                     ELSE users
          /\ du' = CASE result = "data" ->
                          Finish(g, Success([message |-> "User deleted successfully"]))
                     [] result = "empty" ->
                          Finish(g, HTTPException(HTTP_500_INTERNAL_SERVER_ERROR,
                                                  "Failed to delete user", <<>>))
                     [] OTHER ->
                          Finish(g, InternalError("Internal server error during user deletion"))
    /\ UNCHANGED <<iu, reg, lgn>>
    /\ UNCHANGED <<inventory_items, orders, order_items, co, god, uii, uos, cii, pre>>

\* ------------------------------------------------------- specifications
ReadResults == {"data", "raise"}
WriteResults == {"data", "empty", "raise"}
\* an order id no request is given by the store
MissingOrderId == NewOrderId(Cardinality(Reqs) + 1)
OrderIds == {NewOrderId(r) : r \in Reqs} \cup {MissingOrderId}

\* the acting users of the requests: salespeople
Salespeople == {SALESPERSON}

InProgress(r) == co[r].pc \notin {"idle", "done"}
NoOrderInProgress == \A r \in Reqs : ~InProgress(r)

CreateOrderStep(r) ==
    \/ \E res \in ReadResults : CO_SelectInventory(r, res)
    \/ \E res \in WriteResults : CO_InsertOrder(r, res)
    \/ \E res \in WriteResults : CO_InsertOrderItem(r, res)
    \/ \E res \in WriteResults : CO_UpdateStock(r, res)
    \/ \E res \in WriteResults : CO_DeleteOrder(r, res)

GetOrderDetailsStep(roles) ==
    \/ \E role \in roles, order_id \in OrderIds, res \in ReadResults :
          GOD_SelectOrder(role, order_id, res)
    \/ \E res \in ReadResults : GOD_SelectOrderItems(res)

\* requests served one at a time: one create_order request from start to
\* end, and reads of orders before and after it
SerialCreateOrder ==
    \/ god.pc \in {"idle", "done"} /\ CO_Start(1, Salespeople, OrderItemLists(MaxLines))
    \/ CreateOrderStep(1)

SerialGetOrderDetails == NoOrderInProgress /\ GetOrderDetailsStep(Salespeople)

Next ==
    \/ SerialCreateOrder
    \/ SerialGetOrderDetails

Spec == Init /\ [][Next]_vars

\* InventoryItemUpdate bodies: each field None or a value
InventoryItemUpdate(names, stocks) ==
    [name : {None} \cup {Some(n) : n \in names},
     stock_level : {None} \cup {Some(s) : s \in stocks}]

UpdateInventoryItemStep(item_ids, bodies) ==
    \/ \E item_id \in item_ids, item_data \in bodies, res \in ReadResults :
          UII_SelectItem(item_id, item_data, res)
    \/ \E res \in ReadResults : UII_NameCheck(res)
    \/ \E res \in WriteResults : UII_Update(res)

\* one create_order request interleaved at its store calls with
\* update_inventory_item requests for one item
RestockItemIds == {"A"}
RestockNames == {"veneer", "mdf"}

NextRestock ==
    \/ CO_Start(1, Salespeople, OrderItemLists(MaxLines))
    \/ CreateOrderStep(1)
    \/ UpdateInventoryItemStep(RestockItemIds, InventoryItemUpdate(RestockNames, 0..MaxStock))

SpecRestock == Init /\ [][NextRestock]_vars

\* two create_order requests interleaved at their store calls; the second
\* order has a single line
NextRace ==
    \/ CO_Start(1, Salespeople, OrderItemLists(MaxLines))
    \/ CO_Start(2, Salespeople, OrderItemLists(1))
    \/ \E r \in Reqs : CreateOrderStep(r)

SpecRace == Init /\ [][NextRace]_vars

UpdateOrderStatusStep(roles, order_ids, statuses) ==
    \/ \E role \in roles, order_id \in order_ids, new_status \in statuses,
          res \in ReadResults : UOS_SelectOrder(role, order_id, new_status, res)
    \/ \E res \in WriteResults : UOS_Update(res)
    \/ \E res \in ReadResults : UOS_SelectOrderItems(res)

StatusInProgress == uos.pc \notin {"idle", "done"}
ReadInProgress == god.pc \notin {"idle", "done"}

\* the orders of a single line for one item
SingleLineOrders(item_id) == {l \in OrderItemLists(1) : l[1].item_id = item_id}
StatusOrderIds == {NewOrderId(1), MissingOrderId}
StatusManagers == {WAREHOUSE_MANAGER, ADMIN}

\* requests served one at a time: one create_order request of one line, then
\* any number of status updates of its order and of a missing order
SerialSingleLineOrder ==
    \/ ~StatusInProgress /\ CO_Start(1, Salespeople, SingleLineOrders("A"))
    \/ CreateOrderStep(1)

SerialUpdateOrderStatus ==
    /\ NoOrderInProgress
    /\ UpdateOrderStatusStep(StatusManagers, StatusOrderIds, OrderStatus)

NextStatus ==
    \/ SerialSingleLineOrder
    \/ SerialUpdateOrderStatus

SpecStatus == Init /\ [][NextStatus]_vars

\* requests of every role served one at a time: one create_order request of
\* one line, status updates of its order and reads of it
RoleOrderIds == {NewOrderId(1)}
RoleStatuses == {PROCESSING}

SerialOrderOfAnyRole ==
    \/ /\ ~StatusInProgress /\ ~ReadInProgress
       /\ CO_Start(1, UserRole, SingleLineOrders("A"))
    \/ CreateOrderStep(1)

SerialStatusOfAnyRole ==
    /\ NoOrderInProgress /\ ~ReadInProgress
    /\ UpdateOrderStatusStep(UserRole, RoleOrderIds, RoleStatuses)

SerialReadOfAnyRole ==
    /\ NoOrderInProgress /\ ~StatusInProgress
    /\ \/ \E role \in UserRole, order_id \in RoleOrderIds, res \in ReadResults :
             GOD_SelectOrder(role, order_id, res)
       \/ \E res \in ReadResults : GOD_SelectOrderItems(res)

NextRoles ==
    \/ SerialOrderOfAnyRole
    \/ SerialStatusOfAnyRole
    \/ SerialReadOfAnyRole

SpecRoles == Init /\ [][NextRoles]_vars

\* requests served one at a time: one create_order request of one line, one
\* rename of its item, and reads and status updates of the order
RenameInProgress == uii.pc \notin {"idle", "done"}
Admins == {ADMIN}

SerialOrderToRename ==
    \/ /\ ~RenameInProgress /\ ~StatusInProgress /\ ~ReadInProgress
       /\ CO_Start(1, Salespeople, SingleLineOrders("A"))
    \/ CreateOrderStep(1)

SerialRename ==
    /\ NoOrderInProgress /\ ~StatusInProgress /\ ~ReadInProgress
    /\ UpdateInventoryItemStep(RestockItemIds, InventoryItemUpdate(RestockNames, {}))

SerialStatusAfterRename ==
    /\ NoOrderInProgress /\ ~RenameInProgress /\ ~ReadInProgress
    /\ UpdateOrderStatusStep(Admins, RoleOrderIds, RoleStatuses)

SerialReadAfterRename ==
    /\ NoOrderInProgress /\ ~RenameInProgress /\ ~StatusInProgress
    /\ GetOrderDetailsStep(Salespeople)

NextRename ==
    \/ SerialOrderToRename
    \/ SerialRename
    \/ SerialStatusAfterRename
    \/ SerialReadAfterRename

SpecRename == Init /\ [][NextRename]_vars

\* InventoryItemCreate bodies
InventoryItemCreate(names, stocks) == [name : names, stock_level : stocks]

CreateInventoryItemStep(bodies) ==
    \/ \E item_data \in bodies, res \in ReadResults : CII_NameCheck(item_data, res)
    \/ \E res \in WriteResults : CII_Insert(res)

\* one create_inventory_item request interleaved at its store calls with one
\* update_inventory_item request
NextNames ==
    \/ CreateInventoryItemStep(InventoryItemCreate(RestockNames, 0..MaxStock))
    \/ UpdateInventoryItemStep(SeedItems, InventoryItemUpdate(RestockNames, {}))

SpecNames == Init /\ [][NextNames]_vars

\* two create_order requests of one line, each for one unit of the same item,
\* and status updates of the first order, all interleaved at their store calls
UnitOrders(item_id) == {l \in SingleLineOrders(item_id) : l[1].quantity = 1}

NextPair ==
    \/ \E r \in Reqs : CO_Start(r, Salespeople, UnitOrders("A"))
    \/ \E r \in Reqs : CreateOrderStep(r)
    \/ UpdateOrderStatusStep(Admins, RoleOrderIds, RoleStatuses)

SpecPair == Init /\ [][NextPair]_vars

\* one create_order request of one line, status updates of its order and
\* reads of it, all interleaved at their store calls
NextMix ==
    \/ CO_Start(1, Salespeople, SingleLineOrders("A"))
    \/ CreateOrderStep(1)
    \/ UpdateOrderStatusStep(Admins, RoleOrderIds, OrderStatus)
    \/ \E role \in Salespeople, order_id \in RoleOrderIds, res \in ReadResults :
          GOD_SelectOrder(role, order_id, res)
    \/ \E res \in ReadResults : GOD_SelectOrderItems(res)

SpecMix == Init /\ [][NextMix]_vars

\* one create_order request of unit lines for one item and status updates of
\* its order, interleaved at their store calls
UnitLists(item_id, maxLen) ==
    {l \in OrderItemLists(maxLen) :
        \A k \in DOMAIN l : l[k].item_id = item_id /\ l[k].quantity = 1}

NextLines ==
    \/ CO_Start(1, Salespeople, UnitLists("A", MaxLines))
    \/ CreateOrderStep(1)
    \/ UpdateOrderStatusStep(Admins, RoleOrderIds, RoleStatuses)

SpecLines == Init /\ [][NextLines]_vars

\* one create_order request on its own; every store call returns or fails,
\* so the handler always takes its next step
NextCreate ==
    \/ CO_Start(1, Salespeople, OrderItemLists(MaxLines))
    \/ CreateOrderStep(1)

SpecLive == Init /\ [][NextCreate]_vars /\ WF_vars(CreateOrderStep(1))

\* update_inventory_item requests for every item id, known or not, with every
\* combination of supplied fields
NextUpdate ==
    UpdateInventoryItemStep(ItemIds, InventoryItemUpdate(RestockNames, 0..MaxStock))

SpecUpdate == Init /\ [][NextUpdate]_vars

\* the callers of the admin endpoints: the seeded admin and a salesperson
AdminActor == [user_id |-> SeedAdminId, role |-> ADMIN]
Actors == {AdminActor, [user_id |-> NewUserId(1), role |-> SALESPERSON]}
InviteEmails == {"a@x.com", "b@x.com"}
Passwords == {"Passw0rd!", "Secr3t!pw"}
UserCreate(emails, roles) == [email : emails, role : roles]
UserRegister(emails, passwords) == [email : emails, password : passwords]
LoginRequest(emails, passwords) == [email : emails, password : passwords]

InviteUserStep(r, actors, bodies) ==
    \/ \E current_user \in actors, user_data \in bodies, res \in ReadResults :
          IU_SelectUser(r, current_user, user_data, res)
    \/ \E res \in WriteResults : IU_Insert(r, res)

RegisterStep(r, bodies, salts) ==
    \/ \E registration_data \in bodies, salt \in salts, res \in ReadResults :
          REG_SelectUser(r, registration_data, salt, res)
    \/ \E res \in WriteResults : REG_Update(r, res)

DeleteUserStep(actors, user_ids) ==
    \/ \E current_user \in actors, user_id \in user_ids, res \in ReadResults :
          DU_SelectUser(current_user, user_id, res)
    \/ \E res \in WriteResults : DU_Delete(res)

\* two invite_user requests interleaved at their store calls
NextInvite ==
    \E r \in Reqs :
       InviteUserStep(r, Actors, UserCreate(InviteEmails \cup {SeedAdminEmail}, UserRole))

SpecInvite == Init /\ [][NextInvite]_vars

\* the life of the accounts: invitations by the admin for one email,
\* registrations for that email, for an email of no user and for the active
\* admin's, and deletions of the first invited user, all interleaved

NextLifecycle ==
    \/ \E r \in Reqs :
          InviteUserStep(r, {AdminActor}, UserCreate({"a@x.com"}, Salespeople))
    \/ \E r \in Reqs :
          RegisterStep(r, UserRegister(InviteEmails \cup {SeedAdminEmail},
                                       {"Passw0rd!"}), Salts)
    \/ DeleteUserStep({AdminActor}, {NewUserId(1)})

SpecLifecycle == Init /\ [][NextLifecycle]_vars

\* one invitation and one registration, with logins for every email and
\* password at every point in between
NextLogin ==
    \/ InviteUserStep(1, {AdminActor}, UserCreate({"a@x.com"}, Salespeople))
    \/ RegisterStep(1, UserRegister({"a@x.com"}, Passwords), Salts)
    \/ \E login_data \in LoginRequest(InviteEmails \cup {SeedAdminEmail},
                                       Passwords \cup {SeedAdminPassword}),
          res \in ReadResults : LGN_Login(login_data, res)

SpecLogin == Init /\ [][NextLogin]_vars

\* deletions by every caller of every user id, known or not, interleaved with
\* two invitations
NextDelete ==
    \/ \E r \in Reqs :
          InviteUserStep(r, {AdminActor}, UserCreate(InviteEmails, Salespeople))
    \/ DeleteUserStep(Actors, {NewUserId(r) : r \in Reqs \cup {Cardinality(Reqs) + 1}}
                                  \cup {SeedAdminId})

SpecDelete == Init /\ [][NextDelete]_vars

\* ------------------------------------------------ vocabulary of the claims
Done(r) == co[r].pc = "done"
Succeeded(r) == Done(r) /\ co[r].response.status_code = HTTP_200_OK
Rejected(r) == Done(r) /\ co[r].response.status_code = HTTP_400_BAD_REQUEST
OrderIdOf(r) == NewOrderId(r)

\* the calls of a request on one table with one operation
CallsOf(r, op, table) ==
    {n \in DOMAIN co[r].calls : co[r].calls[n].op = op /\ co[r].calls[n].table = table}
WriteCalls(r) == {n \in DOMAIN co[r].calls : co[r].calls[n].op # "select"}
DeleteIssued(r) == CallsOf(r, "delete", "orders") # {}
DeleteApplied(r) ==
    \E n \in CallsOf(r, "delete", "orders") : co[r].calls[n].result = "data"
\* a line insert or a stock update of the request ended with the given result
LineStepEnded(r, result) ==
    \E n \in CallsOf(r, "insert", "order_items") \cup CallsOf(r, "update", "inventory_items") :
        co[r].calls[n].result = result

\* the rows of order_items of one order, in table order
LinesOf(order_id) == SelectOrderItems(order_items, inventory_items, order_id)

\* total quantity a list of lines asks of one item
RECURSIVE Requested(_, _)
Requested(items, i) ==
    IF items = <<>> THEN 0
    ELSE (IF Head(items).item_id = i THEN Head(items).quantity ELSE 0)
         + Requested(Tail(items), i)

StoreAsBefore(r) ==
    /\ inventory_items = pre[r].inventory_items
    /\ orders = pre[r].orders
    /\ order_items = pre[r].order_items

\* a line that cannot be served from the stock the request found
Unsatisfiable(r, k) ==
    LET line == co[r].items[k]
        inv == pre[r].inventory_items
    IN \/ line.item_id \notin DOMAIN inv
       \/ line.quantity > inv[line.item_id].stock_level
\* the indices of the unsatisfiable lines, ascending
RECURSIVE UnsatisfiableFrom(_, _)
UnsatisfiableFrom(r, k) ==
    IF k > Len(co[r].items) THEN <<>>
    ELSE (IF Unsatisfiable(r, k) THEN <<k>> ELSE <<>>) \o UnsatisfiableFrom(r, k + 1)
\* a rejection entry that describes line k
Describes(r, entry, k) ==
    LET line == co[r].items[k]
        inv == pre[r].inventory_items
    IN IF line.item_id \notin DOMAIN inv
       THEN entry.kind = "not_found" /\ entry.item = line.item_id
       ELSE /\ entry.kind = "insufficient"
            /\ entry.item = inv[line.item_id].name
            /\ entry.requested = line.quantity
            /\ entry.available = inv[line.item_id].stock_level

\* ---------------------------------------------------------------- claims
\* C1: in every reachable state every inventory item's stock_level is >= 0.
\* The code breaks it (SpecRestock): an order with two lines for one item
\* keeps one cached row per item, so a restock between the two reads makes
\* the first line's write use a stock it was not validated against.
C1_StockNeverNegative ==
    \A i \in DOMAIN inventory_items : inventory_items[i].stock_level >= 0

\* C2: a request whose pre-validation found a problem ends rejected (400) and
\* performs no write: it issues no insert, update or delete and the store is
\* as it was when the request arrived.
C2_RejectionWritesNothing ==
    \A r \in Reqs :
        co[r].stock_validation_errors # <<>> =>
            /\ co[r].pc \in {"select_inventory", "done"}
            /\ WriteCalls(r) = {}
            /\ StoreAsBefore(r)
            /\ Done(r) /\ Len(co[r].calls) = Len(co[r].items)
                       /\ co[r].calls[Len(co[r].calls)].result # "raise"
                  => Rejected(r)
C2_Witness ==
    \E r \in Reqs : Rejected(r) /\ Len(co[r].items) = 2
                     /\ Len(co[r].response.details) = 1

\* C3: the rejection lists exactly one entry per unsatisfiable line, in
\* request order, none for a satisfiable line (quantity equal to stock is
\* satisfiable), and every line is validated; an order is rejected iff it
\* has an unsatisfiable line.
C3_RejectionListsEveryUnsatisfiableLine ==
    \A r \in Reqs :
        LET unsat == UnsatisfiableFrom(r, 1)
            details == co[r].response.details
        IN /\ Rejected(r) =>
                /\ unsat # <<>>
                /\ Len(details) = Len(unsat)
                /\ \A j \in DOMAIN details : Describes(r, details[j], unsat[j])
                /\ Cardinality(CallsOf(r, "select", "inventory_items")) = Len(co[r].items)
           /\ co[r].pc \notin {"idle", "select_inventory"} /\ ~Rejected(r)
                /\ co[r].calls[Len(co[r].calls)].op # "select"
                => unsat = <<>>
C3_Witness ==
    \E r \in Reqs :
        /\ Rejected(r)
        /\ Len(co[r].items) = 2
        /\ co[r].items[1].item_id = "X"
        /\ co[r].items[2].item_id = "A"
        /\ co[r].items[2].quantity > pre[r].inventory_items["A"].stock_level
        /\ Len(co[r].response.details) = 2
\* the same with a line whose quantity equals the stock: it is not listed
C3_WitnessEqualStock ==
    \E r \in Reqs :
        /\ Rejected(r)
        /\ Len(co[r].items) = 2
        /\ co[r].items[1].item_id = "A"
        /\ co[r].items[1].quantity = pre[r].inventory_items["A"].stock_level
        /\ co[r].items[2].item_id = "X"
        /\ Len(co[r].response.details) = 1

\* C4: when a line insert or a stock update of a request is answered with an
\* empty result, the request issues the delete of its header before it
\* returns; once that delete has taken effect the header is gone and
\* get_order_details for that id answers not-found (or the 500 of a failed
\* read), never an order.
C4_EmptyResultDeletesHeader ==
    \A r \in Reqs :
        Done(r) /\ LineStepEnded(r, "empty") =>
            /\ DeleteIssued(r)
            /\ DeleteApplied(r) =>
                 /\ OrderIdOf(r) \notin DOMAIN orders
                 /\ god.pc # "idle" /\ god.order_id = OrderIdOf(r) =>
                      /\ god.pc = "done"
                      /\ god.response.status_code
                            \in {HTTP_404_NOT_FOUND, HTTP_500_INTERNAL_SERVER_ERROR}
C4_Witness ==
    \E r \in Reqs :
        /\ Done(r) /\ DeleteApplied(r)
        /\ Len(co[r].items) = 2
        /\ Cardinality(CallsOf(r, "update", "inventory_items")) = 2
        /\ god.pc = "done" /\ god.order_id = OrderIdOf(r)
        /\ god.response.status_code = HTTP_404_NOT_FOUND

\* C5: a commit-phase store call that raises is compensated like a failed
\* step: the delete of the header is issued before the failure is reported.
\* The code breaks it: the exception goes straight to the 500 handler.
C5_RaiseIsCompensated ==
    \A r \in Reqs :
        Done(r) /\ LineStepEnded(r, "raise") => DeleteIssued(r)

\* C6: after a request that ends in a non-success outcome, order headers,
\* order lines and every stock_level are as before the request.
\* The code breaks it.
C6_AllOrNothing ==
    \A r \in Reqs :
        Done(r) /\ ~Succeeded(r) => StoreAsBefore(r)

\* C7: when no create_order request is in progress, every header in the
\* store has exactly the lines of the request that created it.
\* The code breaks it.
C7_NoHalfWrittenOrder ==
    NoOrderInProgress =>
        \A r \in Reqs :
            OrderIdOf(r) \in DOMAIN orders =>
                LET rows == LinesOf(OrderIdOf(r))
                IN /\ Len(rows) = Len(co[r].items)
                   /\ \A k \in DOMAIN rows :
                        /\ rows[k].item_id = co[r].items[k].item_id
                        /\ rows[k].quantity = co[r].items[k].quantity

\* C8: two requests that validated against the same stock never both report
\* success with more committed than that stock held.
\* The code breaks it: the stock write is not checked against the value read.
C8_NoSilentOversell ==
    (\A r \in Reqs : Succeeded(r)) /\ pre[1].inventory_items = pre[2].inventory_items =>
        \A i \in DOMAIN pre[1].inventory_items :
            Requested(co[1].items, i) + Requested(co[2].items, i)
                <= pre[1].inventory_items[i].stock_level

\* C9: after a successful request with no concurrent request, every item's
\* stock_level is its stock_level before the request minus the total
\* quantity the order asks of that item, and the order's status is pending.
\* The code breaks it for an order with several lines for one item.
C9_StockReducedByTotal ==
    \A r \in Reqs :
        Succeeded(r) =>
            /\ \A i \in DOMAIN inventory_items :
                  inventory_items[i].stock_level =
                      pre[r].inventory_items[i].stock_level - Requested(co[r].items, i)
            /\ orders[OrderIdOf(r)].status = PENDING

\* C10: a success response for a request with n lines has exactly n lines,
\* in request order, each with the requested item_id and quantity; no other
\* response carries an order.
C10_SuccessDescribesEveryLine ==
    \A r \in Reqs :
        /\ Succeeded(r) =>
              LET body == co[r].response.body[1]
              IN /\ Len(body.items) = Len(co[r].items)
                 /\ \A k \in DOMAIN body.items :
                      /\ body.items[k].item_id = co[r].items[k].item_id
                      /\ body.items[k].quantity = co[r].items[k].quantity
        /\ ~Succeeded(r) => co[r].response.body = <<>>
C10_Witness ==
    \E r \in Reqs :
        /\ Succeeded(r)
        /\ Len(co[r].items) = 2
        /\ co[r].items[1].item_id # co[r].items[2].item_id
        /\ co[r].items[1].quantity # co[r].items[2].quantity

StatusWriteCalls == {n \in DOMAIN uos.calls : uos.calls[n].op # "select"}
\* every store call of the update_order_status request returned its data
StatusCallsSucceeded == \A n \in DOMAIN uos.calls : uos.calls[n].result = "data"

\* C13: update_order_status for an order id that does not exist, whose read
\* of the header does not raise, ends in that step with the 404, whatever the
\* target status; it issues no write call and no table changes.
C13_MissingOrderIsNotFound ==
    [][(/\ uos' # uos
        /\ uos'.calls # <<>>
        /\ uos'.order_id \notin DOMAIN orders
        /\ uos'.calls[1].result # "raise")
       => /\ uos'.pc = "done"
          /\ uos'.response.status_code = HTTP_404_NOT_FOUND
          /\ {n \in DOMAIN uos'.calls : uos'.calls[n].op # "select"} = {}
          /\ UNCHANGED <<orders, order_items, inventory_items>>]_vars
C13_Witness ==
    /\ uos.pc = "done" /\ uos.order_id = MissingOrderId
    /\ uos.status = FULFILLED
    /\ uos.response.status_code = HTTP_404_NOT_FOUND
    /\ StatusWriteCalls = {}
    /\ NewOrderId(1) \in DOMAIN orders

C14_WitnessSameStatus ==
    /\ uos.pc = "done" /\ uos.response.status_code = HTTP_200_OK
    /\ uos.current_order[1].status = PROCESSING
    /\ uos.status = PROCESSING

\* C15: create_order runs only for a salesperson: every other role gets the
\* 403 before any store call and the store stays as it was. update_order_status
\* runs only for a warehouse manager or an admin: a salesperson gets the 403
\* before any store call. get_order_details runs for every role.
C15_RoleGating ==
    /\ \A r \in Reqs :
          co[r].pc # "idle" =>
             IF co[r].role = SALESPERSON
             THEN co[r].response.status_code # HTTP_403_FORBIDDEN
             ELSE /\ Done(r)
                  /\ co[r].response.status_code = HTTP_403_FORBIDDEN
                  /\ co[r].calls = <<>>
                  /\ StoreAsBefore(r)
    /\ uos.pc # "idle" =>
          IF uos.role \in {WAREHOUSE_MANAGER, ADMIN}
          THEN /\ uos.response.status_code # HTTP_403_FORBIDDEN
               /\ uos.calls # <<>>
          ELSE /\ uos.pc = "done"
               /\ uos.response.status_code = HTTP_403_FORBIDDEN
               /\ uos.calls = <<>>
    /\ god.pc # "idle" => god.response.status_code # HTTP_403_FORBIDDEN
C15_Witness ==
    /\ \E r \in Reqs : Done(r) /\ co[r].role = ADMIN
    /\ uos.pc = "done" /\ uos.role = SALESPERSON
    /\ god.pc = "done" /\ god.role = WAREHOUSE_MANAGER
C15_WitnessAllowed ==
    /\ \E r \in Reqs : Succeeded(r) /\ co[r].role = SALESPERSON
    /\ uos.pc = "done" /\ uos.role = WAREHOUSE_MANAGER
    /\ uos.response.status_code = HTTP_200_OK
    /\ god.pc = "done" /\ god.role = ADMIN
    /\ god.response.status_code = HTTP_200_OK

\* the item names of the lines of an order response
ItemNames(response) ==
    [k \in DOMAIN response.body[1].items |-> response.body[1].items[k].item_name]

\* C12: the item names that get_order_details and update_order_status return
\* for a successfully created order are the names create_order returned for
\* it, whatever renames of the items followed.
\* The code breaks it: the name is joined from inventory_items at every read.
C12_ItemNameIsSnapshot ==
    \A r \in Reqs :
        Succeeded(r) =>
           /\ (/\ god.pc = "done" /\ god.order_id = OrderIdOf(r)
               /\ god.response.status_code = HTTP_200_OK)
                 => ItemNames(god.response) = ItemNames(co[r].response)
           /\ (/\ uos.pc = "done" /\ uos.order_id = OrderIdOf(r)
               /\ uos.response.status_code = HTTP_200_OK)
                 => ItemNames(uos.response) = ItemNames(co[r].response)

\* C19: no two inventory items have the same name, in every state reached by
\* create_inventory_item and update_inventory_item requests interleaved at
\* their store calls.
\* The code breaks it: both handlers check the name, then write, and the name
\* can be taken between the two.
C19_NamesUnique ==
    \A i, j \in DOMAIN inventory_items :
        i # j => inventory_items[i].name # inventory_items[j].name

\* C20: the header of an order whose create_order returned success stays in
\* the store, and a header leaves the store only in the delete step of the
\* create_order request that inserted it, after a line insert or a stock
\* update of that request came back empty.
C20_OnlyOwnCompensationDeletes ==
    [][/\ \A r \in Reqs :
            (co'[r].pc = "done" /\ co'[r].response.status_code = HTTP_200_OK)
               => OrderIdOf(r) \in DOMAIN orders'
       /\ \A id \in DOMAIN orders :
            id \notin DOMAIN orders' =>
               \E r \in Reqs :
                  /\ co[r].created_order # <<>> /\ co[r].created_order[1].id = id
                  /\ co[r].pc = "rollback" /\ co'[r].pc = "done"
                  /\ LineStepEnded(r, "empty")
                  /\ DOMAIN orders' = DOMAIN orders \ {id}]_vars
C20_Witness ==
    \E r, q \in Reqs :
        /\ Succeeded(r) /\ OrderIdOf(r) \in DOMAIN orders
        /\ Done(q) /\ DeleteApplied(q) /\ OrderIdOf(q) \notin DOMAIN orders
        /\ uos.pc = "done" /\ uos.order_id = OrderIdOf(r)
        /\ uos.response.status_code = HTTP_200_OK

\* a call of the request after its successful header insert did not succeed
FailedAfterHeader(r) ==
    \E n \in CallsOf(r, "insert", "orders") :
        /\ co[r].calls[n].result = "data"
        /\ \E m \in DOMAIN co[r].calls : m > n /\ co[r].calls[m].result # "data"

\* C16: a create_order whose line insert, stock update or compensating delete
\* fails (empty result or exception) after the header was created answers
\* with the 500, never with success and never with the 400 rejection.
C16_FailureAfterHeaderIs500 ==
    \A r \in Reqs :
        FailedAfterHeader(r) =>
            /\ ~Succeeded(r) /\ ~Rejected(r)
            /\ Done(r) => co[r].response.status_code = HTTP_500_INTERNAL_SERVER_ERROR
C16_Witness ==
    \E r \in Reqs :
        /\ Done(r) /\ FailedAfterHeader(r)
        /\ LineStepEnded(r, "empty")
        /\ \E n \in CallsOf(r, "delete", "orders") : co[r].calls[n].result = "raise"
C16_WitnessRaisedLineStep ==
    \E r \in Reqs : Done(r) /\ LineStepEnded(r, "raise")

\* the header insert of the request came back empty
HeaderInsertEmpty(r) ==
    \E n \in CallsOf(r, "insert", "orders") : co[r].calls[n].result = "empty"

\* C17: when the header insert comes back empty, create_order ends at once
\* with the 500: the header insert is its only write call (no delete, no line
\* insert, no stock update) and the store is as the request found it.
C17_HeaderFailureAbortsWithoutWrites ==
    \A r \in Reqs :
        HeaderInsertEmpty(r) =>
            /\ Done(r)
            /\ co[r].response.status_code = HTTP_500_INTERNAL_SERVER_ERROR
            /\ WriteCalls(r) = CallsOf(r, "insert", "orders")
            /\ Cardinality(WriteCalls(r)) = 1
            /\ StoreAsBefore(r)
C17_Witness ==
    \E r \in Reqs :
        /\ HeaderInsertEmpty(r) /\ Done(r)
        /\ Len(co[r].items) = 2

\* the call at position p of a request of n lines is the one the handler
\* issues at that position: n reads, the header, then per line the insert
\* and the stock update, and a delete only as the last call
CallInOrder(r, p) ==
    LET f == co[r]
        n == Len(f.items)
        c == f.calls[p]
        q == p - (n + 1)
        k == (q + 1) \div 2
    IN IF p <= n
       THEN c.op = "select" /\ c.table = "inventory_items"
            /\ c.data = <<f.items[p].item_id>>
       ELSE IF p = n + 1
       THEN c.op = "insert" /\ c.table = "orders"
       ELSE IF c.op = "delete"
       THEN c.table = "orders" /\ p = Len(f.calls)
       ELSE /\ k <= n
            /\ IF q % 2 = 1
               THEN /\ c.op = "insert" /\ c.table = "order_items"
                    /\ c.data[1].item_id = f.items[k].item_id
                    /\ c.data[1].quantity = f.items[k].quantity
               ELSE /\ c.op = "update" /\ c.table = "inventory_items"
                    /\ c.data[1] = f.items[k].item_id

\* C18: inside one create_order no write is issued before the stock of every
\* line was read, the header insert precedes every line insert, the insert of
\* line k precedes the stock update of line k which precedes the insert of
\* line k+1, and the lines are taken in the order of the request, one store
\* call per line and step.
C18_WriteOrdering ==
    \A r \in Reqs : \A p \in DOMAIN co[r].calls : CallInOrder(r, p)
C18_Witness ==
    \E r \in Reqs :
        /\ Succeeded(r)
        /\ Len(co[r].items) = 2
        /\ co[r].items[1].item_id # co[r].items[2].item_id
        /\ co[r].items[1].quantity # co[r].items[2].quantity
        /\ Len(co[r].calls) = 3 * Len(co[r].items) + 1

\* C21: a header enters the store with status pending and created_by the
\* acting user of the create_order request that inserts it; the status of an
\* existing order changes only in the update step of an update_order_status
\* request for that order id, to the status it asks for; no step of
\* create_order or get_order_details changes the status of an existing order.
C21_StatusChangesOnlyByStatusUpdate ==
    [][/\ \A id \in DOMAIN orders' \ DOMAIN orders :
            /\ orders'[id].status = PENDING
            /\ \E r \in Reqs :
                  /\ id = OrderIdOf(r) /\ co[r].pc = "insert_order"
                  /\ orders'[id].created_by = co[r].user_id
       /\ \A id \in DOMAIN orders \cap DOMAIN orders' :
            orders'[id].status # orders[id].status =>
               /\ uos.pc = "update" /\ uos'.pc # "update"
               /\ uos.order_id = id
               /\ orders'[id].status = uos.status
               /\ co' = co /\ god' = god]_vars
C21_Witness ==
    \E r \in Reqs :
        /\ Succeeded(r)
        /\ orders[OrderIdOf(r)].status = FULFILLED
        /\ orders[OrderIdOf(r)].created_by = co[r].user_id
        /\ god.pc = "done" /\ god.order_id = OrderIdOf(r)
        /\ god.response.status_code = HTTP_200_OK
        /\ god.response.body[1].status = FULFILLED

\* the ids of the rows of order_items
LineIds(rows) == {rows[n].id : n \in DOMAIN rows}
\* the row of order_items with the given id
LineById(rows, id) == rows[CHOOSE n \in DOMAIN rows : rows[n].id = id]

\* C22: a line that stays in the store keeps its order id, item id and
\* quantity; a line appears only in the line insert of the create_order
\* request of its order, and disappears only together with its header, in
\* the delete step of that request.
C22_LinesImmutable ==
    [][/\ \A id \in LineIds(order_items) \cap LineIds(order_items') :
            LineById(order_items', id) = LineById(order_items, id)
       /\ \A id \in LineIds(order_items') \ LineIds(order_items) :
            \E r \in Reqs :
               /\ co[r].pc = "insert_order_item"
               /\ LineById(order_items', id).order_id = OrderIdOf(r)
       /\ \A id \in LineIds(order_items) \ LineIds(order_items') :
            \E r \in Reqs :
               /\ co[r].pc = "rollback"
               /\ LineById(order_items, id).order_id = OrderIdOf(r)
               /\ OrderIdOf(r) \in DOMAIN orders
               /\ OrderIdOf(r) \notin DOMAIN orders']_vars
C22_Witness ==
    \E r \in Reqs :
        /\ Succeeded(r)
        /\ Len(LinesOf(OrderIdOf(r))) = 2
        /\ uos.pc = "done" /\ uos.order_id = OrderIdOf(r)
        /\ uos.response.status_code = HTTP_200_OK
C22_WitnessRemoved ==
    \E r \in Reqs :
        /\ Done(r) /\ DeleteApplied(r)
        /\ Cardinality(CallsOf(r, "insert", "order_items")) = 2
        /\ order_items = <<>>

\* the stored lines of an order as (id, item_id, quantity)
StoredLines(order_id) ==
    LET rows == LinesOf(order_id)
    IN [k \in DOMAIN rows |->
          [id |-> rows[k].id, item_id |-> rows[k].item_id, quantity |-> rows[k].quantity]]
\* the lines of an order response as (id, item_id, quantity)
ResponseLines(response) ==
    LET items == response.body[1].items
    IN [k \in DOMAIN items |->
          [id |-> items[k].id, item_id |-> items[k].item_id,
           quantity |-> items[k].quantity]]

AppliedStockUpdates(r, i) ==
    {n \in CallsOf(r, "update", "inventory_items") :
        co[r].calls[n].result = "data" /\ co[r].calls[n].data[1] = i}
\* the stock level the applied stock updates of the request leave for an item
StockLeftBy(r, i) ==
    LET applied == AppliedStockUpdates(r, i)
    IN IF applied = {} THEN pre[r].inventory_items[i].stock_level
       ELSE co[r].calls[CHOOSE n \in applied : \A m \in applied : m <= n].data[2]

C25_StockWriteFromCurrentStock ==
    [][\A r \in Reqs :
          (/\ co[r].pc = "update_stock" /\ co'[r] # co[r]
           /\ co'[r].calls[Len(co'[r].calls)].result = "data")
             => LET line == co[r].items[co[r].k]
                IN inventory_items'[line.item_id].stock_level
                     = inventory_items[line.item_id].stock_level - line.quantity]_vars

\* C26: create_order accepts an order only if, for every item, the total
\* quantity over all its lines for that item is at most the stock level the
\* request found.
\* The code breaks it: each line is compared with the stock on its own.
C26_TotalPerItemWithinStock ==
    \A r \in Reqs :
        Succeeded(r) =>
            \A i \in DOMAIN pre[r].inventory_items :
                Requested(co[r].items, i) <= pre[r].inventory_items[i].stock_level

\* C27: every 200 of get_order_details for an order carries all the lines of
\* the create_order request that created it, also when the read runs while
\* that request is between its header insert and its last line insert.
\* The code breaks it: the header is visible before its lines are inserted.
C27_ReaderSeesWholeOrder ==
    \A r \in Reqs :
        (/\ god.pc = "done" /\ god.order_id = OrderIdOf(r)
         /\ god.response.status_code = HTTP_200_OK)
          => /\ Len(god.response.body[1].items) = Len(co[r].items)
             /\ \A k \in DOMAIN co[r].items :
                  /\ god.response.body[1].items[k].item_id = co[r].items[k].item_id
                  /\ god.response.body[1].items[k].quantity = co[r].items[k].quantity

\* the store calls of a request stay within what its n lines allow
CallsWithinBudget(r) ==
    LET n == Len(co[r].items)
    IN /\ Cardinality(CallsOf(r, "select", "inventory_items")) <= n
       /\ Cardinality(CallsOf(r, "insert", "orders")) <= 1
       /\ Cardinality(CallsOf(r, "insert", "order_items")) <= n
       /\ Cardinality(CallsOf(r, "update", "inventory_items")) <= n
       /\ Cardinality(CallsOf(r, "delete", "orders")) <= 1
       /\ Len(co[r].calls) <= 3 * n + 2
\* the request ended in one of the three outcomes
OneOutcome(r) ==
    \/ /\ co[r].response.status_code = HTTP_200_OK
       /\ co[r].response.body # <<>>
    \/ /\ co[r].response.status_code = HTTP_400_BAD_REQUEST
       /\ co[r].response.details # <<>> /\ co[r].response.body = <<>>
    \/ /\ co[r].response.status_code = HTTP_500_INTERNAL_SERVER_ERROR
       /\ co[r].response.body = <<>>

\* C28: a create_order request of n lines whose store calls each return or
\* fail ends, after at most n stock reads, one header insert, n line inserts,
\* n stock updates and one header delete, as a success, a rejection or a 500.
C28_CreateOrderTerminates ==
    /\ [](\A r \in Reqs : CallsWithinBudget(r) /\ (Done(r) => OneOutcome(r)))
    /\ \A r \in Reqs : (co[r].pc # "idle") ~> Done(r)
C28_Witness ==
    \E r \in Reqs :
        /\ Done(r) /\ DeleteIssued(r)
        /\ Len(co[r].calls) = 3 * Len(co[r].items) + 2
        /\ Len(co[r].items) = 2

\* a validation read of the request raised
ValidationReadRaised(r) ==
    \E n \in CallsOf(r, "select", "inventory_items") : co[r].calls[n].result = "raise"

\* C29: a create_order whose validation read raises ends with that read, with
\* the 500 and without a write call: the store is as the request found it
\* and holds no header and no line of the request.
C29_FailedValidationReadWritesNothing ==
    \A r \in Reqs :
        ValidationReadRaised(r) =>
            /\ Done(r)
            /\ co[r].response.status_code = HTTP_500_INTERNAL_SERVER_ERROR
            /\ co[r].calls[Len(co[r].calls)].result = "raise"
            /\ WriteCalls(r) = {}
            /\ StoreAsBefore(r)
            /\ OrderIdOf(r) \notin DOMAIN orders
            /\ LinesOf(OrderIdOf(r)) = <<>>
C29_Witness ==
    \E r \in Reqs :
        /\ Done(r) /\ ValidationReadRaised(r)
        /\ Len(co[r].calls) = 2
        /\ co[r].calls[1].result = "data"
        /\ co[r].stock_validation_errors = <<>>

\* the item ids of the lines of a request
ItemsOf(items) == {items[k].item_id : k \in DOMAIN items}

\* C30: a step of a create_order request changes the stock level only of an
\* item of its own lines and nothing else of an inventory row, touches no
\* header but its own, and leaves the lines of every other order as they are.
C30_CreateOrderTouchesOnlyItsOwn ==
    [][\A r \in Reqs :
          co'[r] # co[r] =>
             /\ DOMAIN inventory_items' = DOMAIN inventory_items
             /\ \A i \in DOMAIN inventory_items :
                  IF i \in ItemsOf(co'[r].items)
                  THEN inventory_items'[i]
                         = [inventory_items[i] EXCEPT
                               !.stock_level = inventory_items'[i].stock_level]
                  ELSE inventory_items'[i] = inventory_items[i]
             /\ \A id \in (DOMAIN orders \cup DOMAIN orders') \ {OrderIdOf(r)} :
                  /\ id \in DOMAIN orders /\ id \in DOMAIN orders'
                  /\ orders'[id] = orders[id]
             /\ RowsNotOf(order_items', OrderIdOf(r))
                  = RowsNotOf(order_items, OrderIdOf(r))]_vars
C30_Witness ==
    \E r, q \in Reqs :
        /\ Succeeded(r) /\ Done(q) /\ DeleteApplied(q)
        /\ Len(LinesOf(OrderIdOf(r))) = 1
        /\ inventory_items["A"].stock_level < pre[r].inventory_items["A"].stock_level
        /\ inventory_items["B"].stock_level > 0
        /\ inventory_items["B"] = pre[r].inventory_items["B"]

\* C31: a status write that finds its order deleted since the existence check
\* ends the request with a failure and no order in the response, and the
\* store keeps no header of that id.
C31_StatusWriteAfterDeleteFails ==
    [][(uos.pc = "update" /\ uos' # uos /\ uos.order_id \notin DOMAIN orders) =>
          /\ uos'.pc = "done"
          /\ uos'.response.status_code = HTTP_500_INTERNAL_SERVER_ERROR
          /\ uos'.response.body = <<>>
          /\ uos.order_id \notin DOMAIN orders'
          /\ orders' = orders /\ order_items' = order_items]_vars
C31_Witness ==
    /\ uos.pc = "done"
    /\ DeleteApplied(1) /\ uos.order_id = OrderIdOf(1)
    /\ Len(uos.calls) = 2
    /\ uos.calls[1].result = "data" /\ uos.calls[2].result = "empty"
    /\ uos.response = HTTPException(HTTP_500_INTERNAL_SERVER_ERROR,
                                    "Failed to update order status", <<>>)
    /\ OrderIdOf(1) \notin DOMAIN orders

\* a field of the request body, and the field of a row it would set
Supplied(field) == field # None
SetBy(field, old, new) == IF Supplied(field) THEN new = field[1] ELSE new = old

\* C32: a step of update_inventory_item sets, on the addressed item, only the
\* supplied fields to the supplied values and changes no other item; a
\* request with no field ends at once with the current item and no write; a
\* request for an unknown id ends with not-found and never reaches the write.
C32_UpdateChangesOnlySuppliedFields ==
    [][uii' # uii =>
          LET id == uii'.item_id
              body == uii'.item_data
          IN /\ DOMAIN inventory_items' = DOMAIN inventory_items
             /\ \A i \in DOMAIN inventory_items \ {id} :
                   inventory_items'[i] = inventory_items[i]
             /\ id \in DOMAIN inventory_items =>
                   /\ inventory_items'[id].id = id
                   /\ inventory_items'[id] # inventory_items[id] =>
                         /\ SetBy(body.name, inventory_items[id].name,
                                  inventory_items'[id].name)
                         /\ SetBy(body.stock_level, inventory_items[id].stock_level,
                                  inventory_items'[id].stock_level)
                         /\ uii'.response = Success(inventory_items'[id])
             /\ (uii.pc = "idle" /\ ~Supplied(body.name) /\ ~Supplied(body.stock_level)) =>
                   /\ uii'.pc = "done" /\ inventory_items' = inventory_items
                   /\ id \in DOMAIN inventory_items =>
                         uii'.response \in
                            {Success(inventory_items[id]),
                             InternalError("Internal server error during inventory item update")}
             /\ id \notin DOMAIN inventory_items =>
                   /\ uii'.pc = "done" /\ inventory_items' = inventory_items
                   /\ uii'.response \in
                         {HTTPException(HTTP_404_NOT_FOUND, "Inventory item not found", <<>>),
                          InternalError("Internal server error during inventory item update")}]_vars
C32_Witness ==
    /\ uii.pc = "done" /\ uii.item_id = "A"
    /\ ~Supplied(uii.item_data.name) /\ Supplied(uii.item_data.stock_level)
    /\ uii.response = Success(inventory_items["A"])
    /\ inventory_items["A"].stock_level = uii.item_data.stock_level[1]
    /\ inventory_items["A"].name = SeedName("A")
    /\ inventory_items["B"].stock_level # inventory_items["A"].stock_level
C32_WitnessNoField ==
    /\ uii.pc = "done" /\ uii.item_id = "A"
    /\ ~Supplied(uii.item_data.name) /\ ~Supplied(uii.item_data.stock_level)
    /\ uii.response = Success(inventory_items["A"])
C32_WitnessUnknown ==
    /\ uii.pc = "done" /\ uii.item_id \notin DOMAIN inventory_items
    /\ uii.response.status_code = HTTP_404_NOT_FOUND

\* the step is one of invite_user, of register
InviteActs == \E r \in Reqs : iu'[r] # iu[r]
RegisterActs == \E r \in Reqs : reg'[r] # reg[r]
\* the first read of a register request ended without an exception
RegisterRead(r) ==
    /\ reg[r].pc = "idle" /\ reg'[r] # reg[r]
    /\ reg'[r].calls[1].result # "raise"
Refused(f, code) == f.pc = "done" /\ f.response.status_code = code

\* C33: a user record appears only by invite_user, with status invited; its
\* status changes only by register, from invited to active, so never back
\* and never twice; a register for an email whose user is active ends with
\* the conflict, one for an email of no user with the forbidden response,
\* and neither writes.
C33_UserStatusLifecycle ==
    [][/\ \A u \in DOMAIN users' \ DOMAIN users :
             users'[u].status = INVITED /\ InviteActs
       /\ \A u \in DOMAIN users \cap DOMAIN users' :
             users'[u].status # users[u].status =>
                /\ users[u].status = INVITED /\ users'[u].status = ACTIVE
                /\ RegisterActs
       /\ \A r \in Reqs :
             RegisterRead(r) =>
                LET found == SelectUsersByEmail(users, reg'[r].registration_data.email)
                IN /\ found = {} =>
                        Refused(reg'[r], HTTP_403_FORBIDDEN) /\ users' = users
                   /\ (found # {} /\ \A u \in found : users[u].status = ACTIVE) =>
                        Refused(reg'[r], HTTP_409_CONFLICT) /\ users' = users
       /\ \A r \in Reqs :
             (reg'[r] # reg[r] /\ reg'[r].response.status_code = HTTP_200_OK) =>
                LET id == reg[r].user_data[1].id
                IN id \in DOMAIN users' /\ users'[id].status = ACTIVE]_vars
C33_Witness ==
    \E r, q \in Reqs :
        /\ reg[r].pc = "done" /\ reg[r].response.status_code = HTTP_200_OK
        /\ Refused(reg[q], HTTP_409_CONFLICT)
        /\ reg[q].registration_data.email = reg[r].registration_data.email
        /\ \E u \in DOMAIN users :
              /\ users[u].email = reg[r].registration_data.email
              /\ users[u].status = ACTIVE /\ users[u].role = SALESPERSON
C33_WitnessUnknown ==
    \E r \in Reqs :
        /\ Refused(reg[r], HTTP_403_FORBIDDEN)
        /\ reg[r].registration_data.email \in {"b@x.com"}

\* the stored hash is one of the password
HashOf(password, stored) ==
    /\ stored # None
    /\ \E salt \in Salts : stored[1] = hash_password(password, salt)

\* C34: a login ends with a token only for a user of the store that has the
\* email, is active and holds a hash of the password given, and the token
\* names that user; every other login carries no token; no login writes.
C34_TokenOnlyForActiveUserWithPassword ==
    [][lgn' # lgn =>
          /\ users' = users
          /\ IF lgn'.response.status_code = HTTP_200_OK
             THEN \E u \in DOMAIN users :
                     /\ users[u].email = lgn'.login_data.email
                     /\ users[u].status = ACTIVE
                     /\ HashOf(lgn'.login_data.password, users[u].password_hash)
                     /\ lgn'.response.body[1].access_token
                          = create_access_token(u, users[u].role)
             ELSE lgn'.response.body = <<>>
          /\ (\A u \in SelectUsersByEmail(users, lgn'.login_data.email) :
                 users[u].status = INVITED)
                => lgn'.response.status_code # HTTP_200_OK]_vars
C34_Witness ==
    /\ lgn.pc = "done" /\ lgn.response.status_code = HTTP_200_OK
    /\ lgn.login_data.email \in {"a@x.com"}
    /\ lgn.response.body[1].access_token = create_access_token(NewUserId(1), SALESPERSON)
    /\ reg[1].pc = "done" /\ reg[1].registration_data.password = lgn.login_data.password
C34_WitnessInvited ==
    /\ lgn.pc = "done" /\ lgn.response.status_code = HTTP_401_UNAUTHORIZED
    /\ lgn.login_data.email \in {"a@x.com"}
    /\ NewUserId(1) \in DOMAIN users /\ users[NewUserId(1)].status = INVITED

\* C35: no two users share an email, and no user but the seeded admin has
\* the role admin.
C35_InvitationsKeepEmailsUnique ==
    /\ \A u, v \in DOMAIN users : users[u].email = users[v].email => u = v
    /\ \A u \in DOMAIN users \ {SeedAdminId} : users[u].role # ADMIN

\* a delete_user step of the existence read, of the delete
DeleteRead == du' # du /\ du'.pc \in {"done", "delete"} /\ Len(du'.calls) = 1
DeleteWrite == du' # du /\ du.pc = "delete"

\* C36: delete_user removes at most the addressed user and never the
\* caller's own; a call for the caller's own id ends with the 400, one for an
\* unknown id with the 404, both without a delete; a delete that the store
\* applies removes exactly the addressed user and ends with success.
C36_DeleteRemovesOnlyAddressedUser ==
    [][du' # du =>
          /\ users' # users =>
                /\ DeleteWrite
                /\ du.user_id # du.current_user.user_id
                /\ du.user_id \in DOMAIN users
                /\ users' = [u \in DOMAIN users \ {du.user_id} |-> users[u]]
                /\ du'.response.status_code = HTTP_200_OK
          /\ du'.response.status_code = HTTP_200_OK =>
                du'.user_id \in DOMAIN users \ DOMAIN users'
          /\ (DeleteRead /\ du'.calls[1].result = "data"
                /\ du'.user_id = du'.current_user.user_id) =>
                Refused(du', HTTP_400_BAD_REQUEST) /\ users' = users
          /\ (DeleteRead /\ du'.calls[1].result = "empty") =>
                Refused(du', HTTP_404_NOT_FOUND) /\ users' = users
          /\ (DeleteWrite /\ du'.calls[2].result = "data") =>
                du'.response.status_code = HTTP_200_OK]_vars
C36_Witness ==
    /\ Refused(du, HTTP_400_BAD_REQUEST)
    /\ du.current_user = AdminActor /\ du.user_id = SeedAdminId
    /\ SeedAdminId \in DOMAIN users
    /\ NewUserId(1) \notin DOMAIN users /\ iu[1].response.status_code = HTTP_200_OK
    /\ NewUserId(2) \in DOMAIN users
C36_WitnessUnknown ==
    Refused(du, HTTP_404_NOT_FOUND) /\ du.user_id = NewUserId(Cardinality(Reqs) + 1)

====
